---- MODULE Spec2Model ----
(***************************************************************************)
(* ocelo-rs: the sampling-and-distribution pipeline.                       *)
(*                                                                         *)
(* Two threads share one Mutex<SystemInfoPoller>:                          *)
(*   - the background poller thread spawned in View::default               *)
(*     (tui/src/view.rs:93-108), which locks the poller, reads the polling *)
(*     context, builds a SystemInfoUpdate and sends it on an mpsc channel; *)
(*   - the foreground thread running View::run (tui/src/view.rs:137-168),  *)
(*     which drains the channel with try_recv, collects at most one        *)
(*     message per tick from the Menu component, switches tabs and renders.*)
(*                                                                         *)
(* Spec is the program: both threads from View::default on.                *)
(* SpecFair is Spec with the fairness the threads' scheduling provides.    *)
(* SpecCalls calls single operations (the refreshes, the JSON conversions, *)
(* the panels' attr and render, handle_update) directly on inputs from     *)
(* bounded sets.                                                           *)
(***************************************************************************)
EXTENDS Integers, Sequences, FiniteSets, TLC

(***************************************************************************)
(* Bounds of the model.                                                    *)
(***************************************************************************)
\* the poller performs at most MaxTicks iterations of its loop
MaxTicks == 3
\* the metrics library reports 0..MaxCores CPUs
MaxCores == 1

\* a direct call of get_cpu_info sees 0..MaxInfoCores CPUs
MaxInfoCores == 4

\* per-core frequencies (MHz) the metrics library may report
Freqs == {2000, 2400}

\* per-core frequencies (MHz) in direct calls of get_cpu_info
CallFreqs == {1800, 2000, 2200, 2400}

\* a direct call of get_disk_info sees 0..MaxDisks disks
MaxDisks == 3

\* a panel receives at most MaxAttrCalls attr calls in a row
MaxAttrCalls == 3

\* the CPU/Memory panel receives at most MaxSeriesUpdates updates, one every
\* 3 seconds
MaxSeriesUpdates == 301

\* a rendered CPU/Memory panel holds an update of 1..MaxRenderCores cores
MaxRenderCores == 5

VARIABLES
    \* ---- the metrics library (sysinfo), fixed for a run
    cpus,             \* sequence of per-core frequencies, System::cpus()
    sys_host_name,    \* result of System::host_name(): NoneValue or a name
    \* ---- SystemInfoPoller behind Arc<Mutex<..>>
    polling_context,  \* SystemInfoPoller::polling_context
    lock,             \* holder of the mutex: "free" or "poller"
    poisoned,         \* the mutex is poisoned (a holder panicked)
    \* ---- the poller thread
    ppc,              \* position of the poller thread
    ctx,              \* its local `ctx`
    update,           \* its local `update`
    \* ---- the mpsc channel
    chan,             \* queued updates
    rx_alive,         \* the Receiver has not been dropped
    sent,             \* history: every update sent, in order
    applied,          \* history: every update handed to handle_update
    \* ---- View
    fpc,              \* position of the foreground thread
    current_tab,      \* View::current_tab
    quit,             \* View::quit
    redraw,           \* View::redraw
    msg,              \* the message collected by this iteration's tick
    mounted,          \* components mounted in the tuirealm Application
    active,           \* the active (focused) component
    menu_value,       \* Attribute::Value of the Menu component
    overview,         \* state of the OverView component
    cpu_details,      \* state of the CpuMemoryDetails component
    nexts,            \* history: consecutive next() calls made from OverView
    terminal,         \* the terminal: cursor and what the screen shows
    iteration,        \* history: what the current loop iteration has done
    counts,           \* history: calls the foreground has made so far
    \* ---- direct calls of single operations
    call              \* the last operation called: its input and its result

vars == << cpus, sys_host_name, polling_context, lock, poisoned, ppc, ctx,
           update, chan, rx_alive, sent, applied, fpc, current_tab, quit,
           redraw, msg, mounted, active, menu_value, overview, cpu_details,
           nexts, terminal, iteration, counts, call >>

libVars == << cpus, sys_host_name >>
pollerVars == << ppc, ctx, update >>
progVars == << cpus, sys_host_name, polling_context, lock, poisoned, ppc, ctx,
               update, chan, rx_alive, sent, applied, fpc, current_tab, quit,
               redraw, msg, mounted, active, menu_value, overview,
               cpu_details, nexts, terminal, iteration, counts >>
viewVars == << fpc, current_tab, quit, redraw, msg, mounted, active,
               menu_value, overview, cpu_details, nexts, terminal, iteration,
               counts >>

NoneValue == "None"

\* Option<T>: None and Some(x)
OptNone == << >>

OptSome(x) == << x >>
NoUpdate == [tag |-> "none"]
NoMessage == "none"
NoCall == [fn |-> "none"]

(***************************************************************************)
(* Enumerations.                                                           *)
(***************************************************************************)
SystemInfoPollingContext ==
    {"Overview", "CpuAndMemory", "Processes", "Disks", "Network"}

MenuState ==
    {"OverView", "CpuMemoryDetails", "ProcessDetails", "DiskDetails",
     "NetworkDetails"}

Message == {"ChangeNextMenu", "ChangePreviousMenu", "Quit", "Tick"}

\* keys the terminal may deliver in one tick; "other" is any unbound key
Keys == {"Tab", "Backspace", "q", "Esc", "F10", "other"}

\* MenuState::index
index(tab) ==
    CASE tab = "OverView" -> 0
      [] tab = "CpuMemoryDetails" -> 1
      [] tab = "ProcessDetails" -> 2
      [] tab = "DiskDetails" -> 3
      [] tab = "NetworkDetails" -> 4

\* a ring that leaves NetworkDetails for CpuMemoryDetails
nextSkipsOverView(tab) ==
    CASE tab = "OverView" -> "CpuMemoryDetails"
      [] tab = "CpuMemoryDetails" -> "ProcessDetails"
      [] tab = "ProcessDetails" -> "DiskDetails"
      [] tab = "DiskDetails" -> "NetworkDetails"
      [] tab = "NetworkDetails" -> "CpuMemoryDetails"

\* MenuState::next
next(tab) ==
    CASE tab = "OverView" -> "CpuMemoryDetails"
      [] tab = "CpuMemoryDetails" -> "ProcessDetails"
      [] tab = "ProcessDetails" -> "DiskDetails"
      [] tab = "DiskDetails" -> "NetworkDetails"
      [] tab = "NetworkDetails" -> "OverView"

\* MenuState::previous (the code repeats the arms of next)
previous(tab) ==
    CASE tab = "OverView" -> "CpuMemoryDetails"
      [] tab = "CpuMemoryDetails" -> "ProcessDetails"
      [] tab = "ProcessDetails" -> "DiskDetails"
      [] tab = "DiskDetails" -> "NetworkDetails"
      [] tab = "NetworkDetails" -> "OverView"

\* impl From<&MenuState> for Components
ComponentOf(tab) ==
    CASE tab = "OverView" -> "Overvieww"
      [] tab = "CpuMemoryDetails" -> "CpuDetails"
      [] OTHER -> "Overvieww"

\* Menu::on: the message a key event produces, if any
MenuOn(key) ==
    CASE key = "Tab" -> "ChangeNextMenu"
      [] key = "Backspace" -> "ChangePreviousMenu"
      [] key \in {"q", "Esc", "F10"} -> "Quit"
      [] OTHER -> NoMessage


(***************************************************************************)
(* The metrics library (sysinfo) as the poller reads it.                   *)
(***************************************************************************)
RECURSIVE SumSeq(_)
SumSeq(s) == IF s = << >> THEN 0 ELSE Head(s) + SumSeq(Tail(s))

\* cpu.cpu_usage() of core i, in percent
CoreUsage(i) == 10 * i

\* System::global_cpu_usage(): the library's aggregate figure
GlobalCpuUsage(cs) ==
    IF Len(cs) = 0 THEN 0
    ELSE SumSeq([i \in 1..Len(cs) |-> CoreUsage(i)]) \div Len(cs)

\* the disks the library enumerates
LibDisks ==
    << [total_space |-> 10, available_space |-> 6, mount |-> "/"],
       [total_space |-> 20, available_space |-> 4, mount |-> "/home"] >>

\* the network interfaces the library enumerates (received, transmitted)
LibNetworks == << [received |-> 5, transmitted |-> 3],
                  [received |-> 2, transmitted |-> 1] >>

\* a get_cpu_info that rounds the mean to the nearest integer
get_cpu_infoRounded(cs) ==
    [ name |-> IF Len(cs) > 0 THEN "brand" ELSE "Unknown",
      frequency |-> IF Len(cs) > 0
                    THEN (2 * SumSeq(cs) + Len(cs)) \div (2 * Len(cs))
                    ELSE 0,
      core_count |-> Len(cs),
      temperature |-> OptNone,
      usage |-> GlobalCpuUsage(cs) ]

\* SystemInfoPoller::get_cpu_info
get_cpu_info(cs) ==
    [ name |-> IF Len(cs) > 0 THEN "brand" ELSE "Unknown",
      frequency |-> IF Len(cs) > 0 THEN SumSeq(cs) \div Len(cs) ELSE 0,
      core_count |-> Len(cs),
      temperature |-> OptNone,
      usage |-> GlobalCpuUsage(cs) ]

\* SystemInfoPoller::get_memory_info
get_memory_info ==
    [ total |-> 8, used |-> 4, available |-> 4,
      swap_total |-> 2, swap_used |-> 1, swap_available |-> 1 ]

\* impl From<&Disk> for Storage
Storage(disk) ==
    [ total_space |-> disk.total_space,
      used_space |-> disk.total_space - disk.available_space,
      available_space |-> disk.available_space,
      mount |-> disk.mount ]

\* slice::sort_by_key(|d| d.used_space): stable, ascending
RECURSIVE InsertByUsed(_, _)
InsertByUsed(d, s) ==
    IF s = << >> THEN << d >>
    ELSE IF d.used_space < Head(s).used_space THEN << d >> \o s
    ELSE << Head(s) >> \o InsertByUsed(d, Tail(s))

RECURSIVE SortByUsed(_)
SortByUsed(s) ==
    IF s = << >> THEN << >>
    ELSE InsertByUsed(s[Len(s)], SortByUsed(SubSeq(s, 1, Len(s) - 1)))

Reverse(s) == [i \in 1..Len(s) |-> s[Len(s) + 1 - i]]

\* a get_disk_info that leaves out the reverse: ascending order
DiskInfoFromAscending(ds) ==
    [ disks |-> SortByUsed([i \in 1..Len(ds) |-> Storage(ds[i])]) ]

\* SystemInfoPoller::get_disk_info with the library enumerating the disks ds:
\* collect, sort_by_key(used_space), reverse
DiskInfoFrom(ds) ==
    [ disks |-> Reverse(SortByUsed([i \in 1..Len(ds) |-> Storage(ds[i])])) ]

\* SystemInfoPoller::get_disk_info
get_disk_info == DiskInfoFrom(LibDisks)

\* SystemInfoPoller::get_network_info (impl From<Networks> for NetworkInfo)
get_network_info ==
    [ interfaces |-> Len(LibNetworks),
      total_received |->
          SumSeq([i \in 1..Len(LibNetworks) |-> LibNetworks[i].received]),
      total_transmitted |->
          SumSeq([i \in 1..Len(LibNetworks) |-> LibNetworks[i].transmitted]) ]

\* SystemInfoPoller::get_system_info; t is the sample number (uptime grows)
get_system_info(host, t) ==
    [ host_name |-> IF host = NoneValue THEN "N/A" ELSE host,
      kernel_version |-> "kernel",
      uptime |-> 3 * t ]

\* SystemInfoPoller::get_system_overview
get_system_overview(cs, host, t) ==
    [ cpu |-> get_cpu_info(cs),
      overview |-> get_system_info(host, t),
      memory |-> get_memory_info,
      disks |-> get_disk_info,
      network |-> get_network_info ]

\* the result of a call that panicked instead of returning
Panic == [tag |-> "panic"]

Panicked(r) == "tag" \in DOMAIN r /\ r.tag = "panic"

\* SystemInfoPoller::get_cpu_amd_memory_info
\* `sum_freq / self.inner.cpus().len()` is an integer division: it panics
\* when the library reports no CPU.
get_cpu_amd_memory_info(cs) ==
    IF Len(cs) = 0 THEN Panic
    ELSE [ usage |-> GlobalCpuUsage(cs),
           frequency |-> SumSeq(cs) \div Len(cs),
           temperature |-> 0,
           cores |-> [i \in 1..Len(cs) |->
                        [frequency |-> cs[i], temperature |-> 0,
                         usage |-> CoreUsage(i)]],
           memory_stats |-> get_memory_info ]

\* the conversion with the Overview and CpuAndMemory arms exchanged
SystemInfoUpdateFromSwapped(c, cs, host, t) ==
    CASE c = "Overview" ->
            IF Panicked(get_cpu_amd_memory_info(cs)) THEN Panic
            ELSE [tag |-> "CpuAndMemory", tick |-> t,
                  data |-> get_cpu_amd_memory_info(cs)]
      [] c = "CpuAndMemory" ->
            [tag |-> "OverView", tick |-> t,
             data |-> get_system_overview(cs, host, t)]
      [] OTHER -> [tag |-> "Process", tick |-> t, data |-> NoneValue]

\* impl From<(&SystemInfoPollingContext, &mut SystemInfoPoller)>
\*   for SystemInfoUpdate
\* t labels the sample: the number of the poller iteration that took it.
SystemInfoUpdateFrom(c, cs, host, t) ==
    CASE c = "CpuAndMemory" ->
            IF Panicked(get_cpu_amd_memory_info(cs)) THEN Panic
            ELSE [tag |-> "CpuAndMemory", tick |-> t,
                  data |-> get_cpu_amd_memory_info(cs)]
      [] c = "Disks" -> [tag |-> "Disk", tick |-> t, data |-> NoneValue]
      [] c = "Network" -> [tag |-> "Network", tick |-> t, data |-> NoneValue]
      [] c = "Overview" ->
            [tag |-> "OverView", tick |-> t,
             data |-> get_system_overview(cs, host, t)]
      [] c = "Processes" -> [tag |-> "Process", tick |-> t, data |-> NoneValue]

(***************************************************************************)
(* The mpsc channel: unbounded, one producer, one consumer.                *)
(***************************************************************************)

\* Sender::send on a live channel: the value joins the back of the queue
ChannelSend(ch, u) == Append(ch, u)

\* a try_recv that empties the queue and hands over only its first value
TryRecvDrainAll(ch) == [value |-> Head(ch), rest |-> << >>]

\* a try_recv that hands over the newest value instead of the oldest
TryRecvNewest(ch) ==
    [value |-> ch[Len(ch)], rest |-> SubSeq(ch, 1, Len(ch) - 1)]

\* Receiver::try_recv on a non-empty queue: the oldest value is removed
TryRecv(ch) == [value |-> Head(ch), rest |-> Tail(ch)]

(***************************************************************************)
(* The poller thread: View::default, tui/src/view.rs:93-108.               *)
(*   loop { match poller_clone.lock() {                                    *)
(*            Ok(mut poller) => { ctx; update; if send fails { break } }   *)
(*            Err(error) => eprintln!(..) }                                *)
(*          thread::sleep(3 s) }                                           *)
(* The MutexGuard bound to `poller` lives to the end of the Ok arm.        *)
(***************************************************************************)

\* a poller that reads the polling context without taking the mutex
PollerLockLeavesMutexFree ==
    /\ ppc = "lock"
    /\ lock = "free"
    /\ Len(sent) < MaxTicks
    /\ IF poisoned
       THEN /\ ppc' = "sleep"
            /\ UNCHANGED << lock, ctx >>
       ELSE /\ UNCHANGED lock
            /\ ctx' = polling_context
            /\ ppc' = "refresh"
    /\ UNCHANGED << libVars, call, polling_context, poisoned, update, chan,
                    rx_alive, sent, applied, viewVars >>

\* poller_clone.lock() and `let ctx = poller.polling_context()`
PollerLock ==
    /\ ppc = "lock"
    /\ lock = "free"
    /\ Len(sent) < MaxTicks
    /\ IF poisoned
       THEN \* Err(error) => eprintln!: nothing is sent in this iteration
            /\ ppc' = "sleep"
            /\ UNCHANGED << lock, ctx >>
       ELSE /\ lock' = "poller"
            /\ ctx' = polling_context
            /\ ppc' = "refresh"
    /\ UNCHANGED << libVars, call, polling_context, poisoned, update, chan,
                    rx_alive, sent, applied, viewVars >>

\* `let update = SystemInfoUpdate::from((&ctx, &mut *poller))`
\* A panic unwinds the thread: the guard is dropped with the mutex poisoned
\* and the Sender is dropped with the closure.
PollerRefresh ==
    /\ ppc = "refresh"
    /\ LET u == SystemInfoUpdateFrom(ctx, cpus, sys_host_name, Len(sent) + 1)
       IN  IF Panicked(u)
           THEN /\ ppc' = "panicked"
                /\ lock' = "free"
                /\ poisoned' = TRUE
                /\ UNCHANGED update
           ELSE /\ ppc' = "send"
                /\ update' = u
                /\ UNCHANGED << lock, poisoned >>
    /\ UNCHANGED << libVars, call, polling_context, ctx, chan, rx_alive, sent,
                    applied, viewVars >>

\* the send with the guard kept alive into the sleep
PollerSendKeepsGuard ==
    /\ ppc = "send"
    /\ IF rx_alive
       THEN /\ chan' = ChannelSend(chan, update)
            /\ sent' = Append(sent, update)
            /\ ppc' = "sleep"
            /\ UNCHANGED lock
       ELSE /\ ppc' = "done"
            /\ lock' = "free"
            /\ UNCHANGED << chan, sent >>
    /\ update' = NoUpdate
    /\ UNCHANGED << libVars, call, polling_context, poisoned, ctx, rx_alive,
                    applied, viewVars >>

\* `tx.send(update)`, then the end of the Ok arm (the guard is dropped);
\* a send to a dropped Receiver fails and the loop breaks.
PollerSend ==
    /\ ppc = "send"
    /\ IF rx_alive
       THEN /\ chan' = ChannelSend(chan, update)
            /\ sent' = Append(sent, update)
            /\ ppc' = "sleep"
       ELSE /\ ppc' = "done"
            /\ UNCHANGED << chan, sent >>
    /\ lock' = "free"
    /\ update' = NoUpdate
    /\ UNCHANGED << libVars, call, polling_context, poisoned, ctx, rx_alive,
                    applied, viewVars >>

\* `thread::sleep(Duration::from_secs(3))`, then the next iteration
PollerSleep ==
    /\ ppc = "sleep"
    /\ ppc' = "lock"
    /\ UNCHANGED << libVars, call, polling_context, lock, poisoned, ctx, update,
                    chan, rx_alive, sent, applied, viewVars >>


(***************************************************************************)
(* The interchange format (serde_json) and the panels.                     *)
(* A JSON text is modelled as its syntax tree: [j |-> "int", v |-> n],     *)
(* "float", "string", [j |-> "null"], [j |-> "array", v |-> <<docs>>] and  *)
(* [j |-> "object", v |-> <<members>>], a member being <<key, doc>>.       *)
(***************************************************************************)
\* Result<T, serde_json::Error>
Ok(v) == [ok |-> TRUE, v |-> v]

ParseError == [ok |-> FALSE]

IsErr(r) == ~r.ok

\* the shapes #[derive(Serialize, Deserialize)] works from
U64 == [k |-> "int"]

F32 == [k |-> "float"]

Str == [k |-> "string"]

OptionOf(T) == [k |-> "option", of |-> T]

VecOf(T) == [k |-> "vec", of |-> T]

StructOf(fields) == [k |-> "struct", fields |-> fields]

CpuInfoType ==
    StructOf(<< << "name", Str >>, << "frequency", U64 >>,
                << "core_count", U64 >>, << "usage", F32 >>,
                << "temperature", OptionOf(F32) >> >>)

CpuCoreType ==
    StructOf(<< << "usage", U64 >>, << "frequency", U64 >>,
                << "temperature", U64 >> >>)

MemoryInfoType ==
    StructOf(<< << "total", U64 >>, << "used", U64 >>,
                << "available", U64 >>, << "swap_total", U64 >>,
                << "swap_used", U64 >>, << "swap_available", U64 >> >>)

CpuMemoryUpdateType ==
    StructOf(<< << "usage", F32 >>, << "frequency", U64 >>,
                << "temperature", U64 >>, << "cores", VecOf(CpuCoreType) >>,
                << "memory_stats", MemoryInfoType >> >>)

SystemInfoType ==
    StructOf(<< << "host_name", Str >>, << "kernel_version", Str >>,
                << "uptime", U64 >> >>)

StorageType ==
    StructOf(<< << "total_space", U64 >>, << "used_space", U64 >>,
                << "available_space", U64 >>, << "mount", Str >> >>)

DiskInfoType == StructOf(<< << "disks", VecOf(StorageType) >> >>)

NetworkInfoType ==
    StructOf(<< << "interfaces", U64 >>, << "total_received", U64 >>,
                << "total_transmitted", U64 >> >>)

\* the struct get_system_overview builds (core/src/lib.rs:199-207)
SystemOverviewInfoType ==
    StructOf(<< << "cpu", CpuInfoType >>, << "overview", SystemInfoType >>,
                << "memory", MemoryInfoType >>, << "disks", DiskInfoType >>,
                << "network", NetworkInfoType >> >>)

ProcessInfoType ==
    StructOf(<< << "pid", U64 >>, << "name", Str >>, << "memory", U64 >>,
                << "cpu_usage", F32 >> >>)

ProcessListType == VecOf(ProcessInfoType)

\* a serializer that writes an absent Option as the number 0
RECURSIVE to_jsonNoneAsZero(_, _)
to_jsonNoneAsZero(T, v) ==
    CASE T.k = "int" -> [j |-> "int", v |-> v]
      [] T.k = "float" -> [j |-> "float", v |-> v]
      [] T.k = "string" -> [j |-> "string", v |-> v]
      [] T.k = "option" ->
            IF v = OptNone THEN [j |-> "int", v |-> 0]
            ELSE to_jsonNoneAsZero(T.of, v[1])
      [] T.k = "vec" ->
            [j |-> "array",
             v |-> [i \in 1..Len(v) |-> to_jsonNoneAsZero(T.of, v[i])]]
      [] T.k = "struct" ->
            [j |-> "object",
             v |-> [i \in 1..Len(T.fields) |->
                      << T.fields[i][1],
                         to_jsonNoneAsZero(T.fields[i][2],
                                           v[T.fields[i][1]]) >>]]

\* serde_json::to_string: the JSON document of a value of shape T.
\* An integer is written without a fraction, a float with one; None is
\* written as null and Some(x) as x; a struct is written as an object with
\* one member per field, in declaration order.
RECURSIVE to_json(_, _)
to_json(T, v) ==
    CASE T.k = "int" -> [j |-> "int", v |-> v]
      [] T.k = "float" -> [j |-> "float", v |-> v]
      [] T.k = "string" -> [j |-> "string", v |-> v]
      [] T.k = "option" ->
            IF v = OptNone THEN [j |-> "null"] ELSE to_json(T.of, v[1])
      [] T.k = "vec" ->
            [j |-> "array", v |-> [i \in 1..Len(v) |-> to_json(T.of, v[i])]]
      [] T.k = "struct" ->
            [j |-> "object",
             v |-> [i \in 1..Len(T.fields) |->
                      << T.fields[i][1],
                         to_json(T.fields[i][2], v[T.fields[i][1]]) >>]]

JsonHas(members, key) == \E i \in 1..Len(members) : members[i][1] = key

JsonGet(members, key) ==
    members[CHOOSE i \in 1..Len(members) : members[i][1] = key][2]

\* serde_json::from_str succeeds on a document for the shape T.
\* An integer field refuses a number with a fraction; a missing member is an
\* error unless the field is an Option; unknown members are ignored.
RECURSIVE Decodes(_, _)
Decodes(T, doc) ==
    CASE T.k = "int" -> doc.j = "int"
      [] T.k = "float" -> doc.j \in {"int", "float"}
      [] T.k = "string" -> doc.j = "string"
      [] T.k = "option" -> doc.j = "null" \/ Decodes(T.of, doc)
      [] T.k = "vec" ->
            /\ doc.j = "array"
            /\ \A i \in 1..Len(doc.v) : Decodes(T.of, doc.v[i])
      [] T.k = "struct" ->
            /\ doc.j = "object"
            /\ \A i \in 1..Len(T.fields) :
                 IF JsonHas(doc.v, T.fields[i][1])
                 THEN Decodes(T.fields[i][2], JsonGet(doc.v, T.fields[i][1]))
                 ELSE T.fields[i][2].k = "option"

\* the value of shape T that serde_json::from_str builds from a document
\* it succeeds on
RECURSIVE Decoded(_, _)
Decoded(T, doc) ==
    CASE T.k \in {"int", "float", "string"} -> doc.v
      [] T.k = "option" ->
            IF doc.j = "null" THEN OptNone ELSE OptSome(Decoded(T.of, doc))
      [] T.k = "vec" -> [i \in 1..Len(doc.v) |-> Decoded(T.of, doc.v[i])]
      [] T.k = "struct" ->
            [name \in {T.fields[i][1] : i \in 1..Len(T.fields)} |->
               IF JsonHas(doc.v, name)
               THEN Decoded(T.fields[CHOOSE i \in 1..Len(T.fields) :
                                       T.fields[i][1] = name][2],
                            JsonGet(doc.v, name))
               ELSE OptNone]

\* serde_json::from_str
from_json(T, doc) ==
    IF Decodes(T, doc) THEN Ok(Decoded(T, doc)) ELSE ParseError

\* #[derive(Default)]: zero, the empty string, None, the empty Vec
RECURSIVE DefaultOf(_)
DefaultOf(T) ==
    CASE T.k \in {"int", "float"} -> 0
      [] T.k = "string" -> ""
      [] T.k = "option" -> OptNone
      [] T.k = "vec" -> << >>
      [] T.k = "struct" ->
            [name \in {T.fields[i][1] : i \in 1..Len(T.fields)} |->
               DefaultOf(T.fields[CHOOSE i \in 1..Len(T.fields) :
                                    T.fields[i][1] = name][2])]

\* OverView::default (#[derive(Default)]); properties holds the values set
\* for Attribute::Custom("_SYSTEM_OVERVIEW")
OverViewDefault ==
    [ sysinfo |-> DefaultOf(SystemOverviewInfoType),
      disk_usage |-> << >>,
      properties |-> << >> ]

\* OverView::calculate_disk_usage_info: one line for each of the first three
\* disks of the stored snapshot (mount, used percent to one decimal, here in
\* tenths of a percent, used and total size); the String is the lines joined
\* by "\n", the empty String being no line
calculate_disk_usage_info(sysinfo) ==
    LET ds == sysinfo.disks.disks
        n == IF Len(ds) < 3 THEN Len(ds) ELSE 3
    IN  [ i \in 1..n |->
            [ mount |-> ds[i].mount,
              percent |-> IF ds[i].total_space = 0 THEN 0
                          ELSE (2000 * ds[i].used_space + ds[i].total_space)
                                   \div (2 * ds[i].total_space),
              used |-> ds[i].used_space,
              total |-> ds[i].total_space ] ]

\* OverView::attr for Attribute::Custom(_) with a string value
OverViewAttr(panel, doc) ==
    LET r == from_json(SystemOverviewInfoType, doc)
    IN  [ panel EXCEPT
            !.sysinfo = IF IsErr(r) THEN @ ELSE r.v,
            !.properties = << doc >> ]

\* the span of the charts' time axis in samples: `(15.0 * 60.0) / 3.0`,
\* "updates coming at every 3 seconds, keep only last 15 minutes"
ChartSamples == 300

\* CpuMemoryDetails::default().with_core_count(..).with_cpu_name(..)
CpuMemoryDetailsNew(info) ==
    [ core_count |-> info.core_count,
      cpu_name |-> info.name,
      cpu_update |-> DefaultOf(CpuMemoryUpdateType),
      cpu_usage |-> << >>,
      memory_usage |-> << >>,
      swap_usage |-> << >>,
      max_frequency |-> 0 ]

\* a process_update that numbers the samples from 1
process_updateOneBased(panel, u) ==
    LET mem == u.memory_stats
        memory_used_percent ==
            IF mem.total > 0 THEN (mem.used * 100) \div mem.total ELSE 0
        swap_used_percent ==
            IF mem.swap_total > 0
            THEN (mem.swap_used \div mem.total) * 100
            ELSE 0
    IN  IF mem.swap_total > 0 /\ mem.total = 0 THEN Panic
        ELSE [ panel EXCEPT
                 !.cpu_usage =
                     Append(@, << Len(panel.cpu_usage) + 1, u.usage >>),
                 !.memory_usage =
                     Append(@, << Len(panel.swap_usage) + 1,
                                  memory_used_percent >>),
                 !.swap_usage =
                     Append(@, << Len(panel.swap_usage) + 1,
                                  swap_used_percent >>),
                 !.max_frequency =
                     IF @ < u.frequency THEN u.frequency ELSE @,
                 !.cpu_update = u ]

\* CpuMemoryDetails::process_update
\* `(swap_used / total) as f64 * 100.0` divides two u64 values: it panics
\* when swap_total > 0 and total = 0.
process_update(panel, u) ==
    LET mem == u.memory_stats
        memory_used_percent ==
            IF mem.total > 0 THEN (mem.used * 100) \div mem.total ELSE 0
        swap_used_percent ==
            IF mem.swap_total > 0
            THEN (mem.swap_used \div mem.total) * 100
            ELSE 0
    IN  IF mem.swap_total > 0 /\ mem.total = 0 THEN Panic
        ELSE [ panel EXCEPT
                 !.cpu_usage = Append(@, << Len(panel.cpu_usage), u.usage >>),
                 !.memory_usage =
                     Append(@, << Len(panel.swap_usage),
                                  memory_used_percent >>),
                 !.swap_usage =
                     Append(@, << Len(panel.swap_usage),
                                  swap_used_percent >>),
                 !.max_frequency =
                     IF @ < u.frequency THEN u.frequency ELSE @,
                 !.cpu_update = u ]

\* the slots render_core_details splits its area into:
\* `.constraints([Constraint::Fill(1); 4])`
CoreLayoutSlots == 4

\* stands for u64::MAX, the result of `f64::INFINITY as u64`; above every
\* number of the model
U64Saturated == 2000000000

\* `((core.frequency as f64 / self.max_frequency as f64) * 100.0).round()
\* as u64`: round half away from zero; x / 0.0 is infinite and saturates,
\* 0.0 / 0.0 is NaN and becomes 0
NormalisedFrequency(f, max) ==
    IF max = 0 THEN (IF f = 0 THEN 0 ELSE U64Saturated)
    ELSE (200 * f + max) \div (2 * max)

\* CpuMemoryDetails::render_core_details: one bar group per core of the
\* stored update, drawn into layout[i], i counting from 0; the layout has
\* CoreLayoutSlots slots and indexing past them panics
render_core_details(panel) ==
    LET cores == panel.cpu_update.cores
    IN  IF Len(cores) > CoreLayoutSlots THEN Panic
        ELSE [ bars |->
                 [ k \in 1..Len(cores) |->
                     [ slot |-> k - 1,
                       usage |-> cores[k].usage,
                       frequency |-> NormalisedFrequency(cores[k].frequency,
                                                         panel.max_frequency),
                       temperature |-> cores[k].temperature ] ] ]

\* an attr that stores the default update when the text cannot be decoded
CpuMemoryDetailsAttrDefaultOnErr(panel, doc) ==
    LET r == from_json(CpuMemoryUpdateType, doc)
    IN  IF IsErr(r)
        THEN process_update(panel, DefaultOf(CpuMemoryUpdateType))
        ELSE process_update(panel, r.v)

\* CpuMemoryDetails::attr for Attribute::Value with a string value
CpuMemoryDetailsAttr(panel, doc) ==
    LET r == from_json(CpuMemoryUpdateType, doc)
    IN  IF IsErr(r) THEN panel ELSE process_update(panel, r.v)

\* Processes::default
ProcessesDefault == [list |-> << >>]

\* Processes::attr for Attribute::Value with a string value
ProcessesAttr(panel, doc) ==
    LET r == from_json(ProcessListType, doc)
    IN  IF IsErr(r) THEN panel ELSE [panel EXCEPT !.list = r.v]

\* a handle_update whose empty arms return before the flag is set
handle_updateReturnsEarly(view, u) ==
    CASE u.tag = "CpuAndMemory" ->
            IF "CpuDetails" \notin view.mounted THEN Panic
            ELSE LET p == CpuMemoryDetailsAttr(view.cpu_details,
                            to_json(CpuMemoryUpdateType, u.data))
                 IN  IF Panicked(p) THEN Panic
                     ELSE [view EXCEPT !.cpu_details = p, !.redraw = TRUE]
      [] u.tag = "OverView" ->
            IF "Overvieww" \notin view.mounted THEN Panic
            ELSE [view EXCEPT
                    !.overview = OverViewAttr(@,
                                   to_json(SystemOverviewInfoType, u.data)),
                    !.redraw = TRUE]
      [] u.tag \in {"Disk", "Network", "Process"} -> view

\* View::handle_update on the fields of the View it can touch:
\* [mounted, redraw, overview, cpu_details]. tuirealm refuses an attribute
\* for a component that is not mounted, and handle_update asserts that the
\* attr call succeeded.
handle_update(view, u) ==
    CASE u.tag = "CpuAndMemory" ->
            IF "CpuDetails" \notin view.mounted THEN Panic
            ELSE LET p == CpuMemoryDetailsAttr(view.cpu_details,
                            to_json(CpuMemoryUpdateType, u.data))
                 IN  IF Panicked(p) THEN Panic
                     ELSE [view EXCEPT !.cpu_details = p, !.redraw = TRUE]
      [] u.tag = "OverView" ->
            IF "Overvieww" \notin view.mounted THEN Panic
            ELSE [view EXCEPT
                    !.overview = OverViewAttr(@,
                                   to_json(SystemOverviewInfoType, u.data)),
                    !.redraw = TRUE]
      [] u.tag \in {"Disk", "Network", "Process"} ->
            [view EXCEPT !.redraw = TRUE]

(***************************************************************************)
(* The foreground thread: View::run, tui/src/view.rs:137-168.              *)
(* fpc = "crashed" is a panic of the foreground thread (a failed assert!   *)
(* or an unwrap of a poisoned lock): the foreground takes no further step. *)
(***************************************************************************)

\* the loop condition of View::run: `while !self.quit`
LoopContinuesAlways(q) == TRUE

LoopContinues(q) == ~q

\* `while !self.quit` and `if let Ok(update) = self.sysinfo_rx.try_recv()
\* { self.handle_update(update) }`: one non-blocking poll of the channel.
\* A panic inside handle_update ends the foreground thread.
FgRecv ==
    /\ fpc = "loop"
    /\ LoopContinues(quit)
    /\ IF chan = << >>
       THEN /\ fpc' = "tick"
            /\ iteration' = [iteration EXCEPT !.rendered = FALSE]
            /\ UNCHANGED << chan, applied, redraw, overview, cpu_details >>
       ELSE LET u == TryRecv(chan).value
                v == handle_update([mounted |-> mounted, redraw |-> redraw,
                                    overview |-> overview,
                                    cpu_details |-> cpu_details], u)
            IN  /\ chan' = TryRecv(chan).rest
                /\ IF Panicked(v)
                   THEN /\ fpc' = "crashed"
                        /\ UNCHANGED << applied, redraw, overview,
                                        cpu_details, iteration >>
                   ELSE /\ fpc' = "tick"
                        /\ applied' = Append(applied, u)
                        /\ redraw' = v.redraw
                        /\ overview' = v.overview
                        /\ cpu_details' = v.cpu_details
                        /\ iteration' = [iteration EXCEPT !.drained = TRUE,
                                                          !.rendered = FALSE]
    /\ UNCHANGED << libVars, call, terminal, polling_context, lock, poisoned, pollerVars,
                    rx_alive, sent, current_tab, quit, msg, mounted, active,
                    menu_value, nexts, counts >>

\* `self.tuirealm.tick(PollStrategy::Once)`: at most one event is polled and
\* forwarded to the Menu (subscribed to every event); the panels' `on`
\* return None. A non-empty message list sets redraw.
FgTick ==
    /\ fpc = "tick"
    /\ \E key \in Keys \cup {NoneValue} :
         LET m == IF key = NoneValue THEN NoMessage ELSE MenuOn(key)
         IN  /\ msg' = m
             /\ IF m = NoMessage
                THEN /\ fpc' = "render"
                     /\ UNCHANGED redraw
                ELSE /\ fpc' = "update"
                     /\ redraw' = TRUE
    /\ UNCHANGED << libVars, call, terminal, polling_context, lock, poisoned, pollerVars,
                    chan, rx_alive, sent, applied, current_tab, quit,
                    mounted, active, menu_value, overview, cpu_details,
                    nexts, iteration, counts >>

\* Message::Tick is produced by no component (Menu::on is the only source of
\* messages and never returns it), so the Tick arm of View::update is never
\* entered and has no action here.

\* View::update, Message::Quit
FgUpdateQuit ==
    /\ fpc = "update"
    /\ msg = "Quit"
    /\ quit' = TRUE
    /\ fpc' = "render"
    /\ UNCHANGED << libVars, call, terminal, polling_context, lock, poisoned, pollerVars,
                    chan, rx_alive, sent, applied, current_tab, redraw, msg,
                    mounted, active, menu_value, overview, cpu_details,
                    nexts, iteration, counts >>

\* View::update, Message::ChangeNextMenu: `self.current_tab.next()`
FgUpdateNext ==
    /\ fpc = "update"
    /\ msg = "ChangeNextMenu"
    /\ current_tab' = next(current_tab)
    /\ nexts' = IF nexts >= 0 /\ nexts < Cardinality(MenuState)
                THEN nexts + 1
                ELSE IF nexts = Cardinality(MenuState) THEN 1
                ELSE IF current_tab' = "OverView" THEN 0 ELSE -1
    /\ fpc' = "switch"
    /\ UNCHANGED << libVars, call, terminal, polling_context, lock, poisoned, pollerVars,
                    chan, rx_alive, sent, applied, quit, redraw, msg,
                    mounted, active, menu_value, overview, cpu_details,
                    iteration, counts >>

\* View::update, Message::ChangePreviousMenu: `self.current_tab.previous()`
FgUpdatePrevious ==
    /\ fpc = "update"
    /\ msg = "ChangePreviousMenu"
    /\ current_tab' = previous(current_tab)
    /\ nexts' = IF current_tab' = "OverView" THEN 0 ELSE -1
    /\ fpc' = "switch"
    /\ UNCHANGED << libVars, call, terminal, polling_context, lock, poisoned, pollerVars,
                    chan, rx_alive, sent, applied, quit, redraw, msg,
                    mounted, active, menu_value, overview, cpu_details,
                    iteration, counts >>

\* `if !self.tuirealm.mounted(&Components::CpuDetails)`
NeedsMountAlways(m) == TRUE

\* a switch_view that takes the panel for mounted without looking
NeedsMountNever(m) == FALSE

NeedsMount(m) == "CpuDetails" \notin m

\* a switch_view that binds the guard of its first lock to a variable that
\* lives to the end of the function
FgSwitchMountKeepsGuard ==
    /\ fpc = "switch"
    /\ current_tab = "CpuMemoryDetails"
    /\ NeedsMount(mounted)
    /\ lock = "free"
    /\ IF poisoned
       THEN /\ fpc' = "crashed"
            /\ UNCHANGED << mounted, cpu_details, counts, lock >>
       ELSE /\ mounted' = mounted \cup {"CpuDetails"}
            /\ cpu_details' = CpuMemoryDetailsNew(get_cpu_info(cpus))
            /\ counts' = [counts EXCEPT !.get_cpu_info = @ + 1,
                                        !.mount = @ + 1]
            /\ lock' = "foreground"
            /\ UNCHANGED fpc
    /\ UNCHANGED << libVars, call, terminal, polling_context, poisoned,
                    pollerVars, chan, rx_alive, sent, applied, current_tab,
                    quit, redraw, msg, active, menu_value, overview, nexts,
                    iteration >>

\* View::switch_view, MenuState::CpuMemoryDetails, panel not yet mounted:
\* `self.system_info.lock().unwrap().get_cpu_info()` and the mount.
\* The guard is a temporary of that statement.
FgSwitchMount ==
    /\ fpc = "switch"
    /\ current_tab = "CpuMemoryDetails"
    /\ NeedsMount(mounted)
    /\ lock = "free"
    /\ IF poisoned
       THEN /\ fpc' = "crashed"
            /\ UNCHANGED << mounted, cpu_details, counts >>
       ELSE /\ mounted' = mounted \cup {"CpuDetails"}
            /\ cpu_details' = CpuMemoryDetailsNew(get_cpu_info(cpus))
            /\ counts' = [counts EXCEPT !.get_cpu_info = @ + 1,
                                        !.mount = @ + 1]
            /\ UNCHANGED fpc
    /\ UNCHANGED << libVars, call, terminal, polling_context, lock, poisoned, pollerVars,
                    chan, rx_alive, sent, applied, current_tab, quit, redraw,
                    msg, active, menu_value, overview, nexts, iteration >>

\* the polling context View::switch_view sets for a tab
ContextSetFor(tab) ==
    CASE tab = "CpuMemoryDetails" -> "CpuAndMemory"
      [] tab = "OverView" -> "Overview"

\* View::switch_view, `self.system_info.lock().unwrap()
\* .set_polling_context(..)` for the tabs CpuMemoryDetails and OverView,
\* then blur/active (CpuMemoryDetails only) and the Menu attribute.
FgSwitchContext ==
    /\ fpc = "switch"
    /\ \/ current_tab = "CpuMemoryDetails" /\ ~NeedsMount(mounted)
       \/ current_tab = "OverView"
    /\ lock = "free"
    /\ IF poisoned
       THEN /\ fpc' = "crashed"
            /\ UNCHANGED << polling_context, active, menu_value >>
       ELSE /\ polling_context' = ContextSetFor(current_tab)
            /\ active' = IF current_tab = "CpuMemoryDetails"
                         THEN "CpuDetails" ELSE active
            /\ menu_value' = index(current_tab)
            /\ fpc' = "render"
    /\ UNCHANGED << libVars, call, terminal, lock, poisoned, pollerVars, chan, rx_alive,
                    sent, applied, current_tab, quit, redraw, msg, mounted,
                    overview, cpu_details, nexts, iteration, counts >>

\* a switch_view whose empty arms return without setting the Menu attribute
FgSwitchOtherSkipsMenu ==
    /\ fpc = "switch"
    /\ current_tab \in {"ProcessDetails", "DiskDetails", "NetworkDetails"}
    /\ fpc' = "render"
    /\ UNCHANGED << libVars, call, terminal, polling_context, lock, poisoned,
                    pollerVars, chan, rx_alive, sent, applied, current_tab,
                    quit, redraw, msg, mounted, active, menu_value, overview,
                    cpu_details, nexts, iteration, counts >>

\* View::switch_view, the empty arms (DiskDetails, NetworkDetails,
\* ProcessDetails): only the Menu attribute is set.
FgSwitchOther ==
    /\ fpc = "switch"
    /\ current_tab \in {"ProcessDetails", "DiskDetails", "NetworkDetails"}
    /\ menu_value' = index(current_tab)
    /\ fpc' = "render"
    /\ UNCHANGED << libVars, call, terminal, polling_context, lock, poisoned, pollerVars,
                    chan, rx_alive, sent, applied, current_tab, quit, redraw,
                    msg, mounted, active, overview, cpu_details, nexts,
                    iteration, counts >>

\* a render step that does not clear the flag
FgRenderKeepsFlag ==
    /\ fpc = "render"
    /\ msg' = NoMessage
    /\ iteration' = [first |-> FALSE, drained |-> FALSE, rendered |-> redraw]
    /\ terminal' = IF redraw
                   THEN [terminal EXCEPT !.screen = ComponentOf(current_tab)]
                   ELSE terminal
    /\ fpc' = "loop"
    /\ UNCHANGED << libVars, call, polling_context, lock, poisoned, pollerVars,
                    chan, rx_alive, sent, applied, current_tab, quit, redraw,
                    mounted, active, menu_value, overview, cpu_details,
                    nexts, counts >>

\* `if self.redraw { self.render(); self.redraw = false; }`, end of the
\* loop body; iteration.rendered records whether render was invoked
FgRender ==
    /\ fpc = "render"
    /\ redraw' = FALSE
    /\ msg' = NoMessage
    /\ iteration' = [first |-> FALSE, drained |-> FALSE, rendered |-> redraw]
    /\ terminal' = IF redraw
                   THEN [terminal EXCEPT !.screen = ComponentOf(current_tab)]
                   ELSE terminal
    /\ fpc' = "loop"
    /\ UNCHANGED << libVars, call, polling_context, lock, poisoned, pollerVars,
                    chan, rx_alive, sent, applied, current_tab, quit,
                    mounted, active, menu_value, overview, cpu_details,
                    nexts, counts >>

\* the loop condition fails: `self.close()` (clear the screen, show the
\* cursor) and run returns
FgClose ==
    /\ fpc = "loop"
    /\ ~LoopContinues(quit)
    /\ counts' = [counts EXCEPT !.close = @ + 1]
    /\ terminal' = [cursor |-> "shown", screen |-> "clear"]
    /\ fpc' = "closed"
    /\ UNCHANGED << libVars, call, polling_context, lock, poisoned, pollerVars,
                    chan, rx_alive, sent, applied, current_tab, quit, redraw,
                    msg, mounted, active, menu_value, overview, cpu_details,
                    nexts, iteration >>

\* the View is dropped after run has returned, and with it the Receiver
FgDrop ==
    /\ fpc = "closed"
    /\ rx_alive' = FALSE
    /\ chan' = << >>
    /\ fpc' = "exited"
    /\ UNCHANGED << libVars, call, terminal, polling_context, lock, poisoned, pollerVars,
                    sent, applied, current_tab, quit, redraw, msg, mounted,
                    active, menu_value, overview, cpu_details, nexts,
                    iteration, counts >>

RECURSIVE SeqsUpTo(_, _)
SeqsUpTo(S, n) ==
    IF n = 0 THEN {<< >>}
    ELSE SeqsUpTo(S, n - 1) \cup
         {Append(s, x) : s \in {t \in SeqsUpTo(S, n - 1) : Len(t) = n - 1},
                         x \in S}

\* SystemInfoPoller::default, poller.init() and View::default
Init ==
    /\ cpus \in SeqsUpTo(Freqs, MaxCores)
    /\ sys_host_name \in {NoneValue, "host"}
    /\ polling_context = "Overview"
    /\ lock = "free"
    /\ poisoned = FALSE
    /\ ppc = "lock"
    /\ ctx = "Overview"
    /\ update = NoUpdate
    /\ chan = << >>
    /\ rx_alive = TRUE
    /\ sent = << >>
    /\ applied = << >>
    /\ fpc = "loop"
    /\ current_tab = "OverView"
    /\ quit = FALSE
    /\ redraw = TRUE
    /\ msg = NoMessage
    /\ mounted = {"Menu", "Overvieww"}
    /\ active = "Overvieww"
    /\ menu_value = 0
    /\ overview = OverViewDefault
    /\ cpu_details = NoneValue
    /\ nexts = 0
    /\ terminal = [cursor |-> "hidden", screen |-> "clear"]
    /\ iteration = [first |-> TRUE, drained |-> FALSE, rendered |-> FALSE]
    /\ counts = [close |-> 0, get_cpu_info |-> 0, mount |-> 0]
    /\ call = NoCall

Next ==
    \/ PollerLock
    \/ PollerRefresh
    \/ PollerSend
    \/ PollerSleep
    \/ FgRecv
    \/ FgTick
    \/ FgUpdateQuit
    \/ FgUpdateNext
    \/ FgUpdatePrevious
    \/ FgSwitchMount
    \/ FgSwitchContext
    \/ FgSwitchOther
    \/ FgRender
    \/ FgClose
    \/ FgDrop

Spec == Init /\ [][Next]_vars

\* The program under the scheduling the code relies on. The poller thread
\* is a running thread: each of its steps is eventually taken, and its
\* lock() returns once the mutex is free, which it stays while the poller
\* waits (the foreground holds the guard only for the length of one
\* statement). The foreground's lock() in switch_view finds the mutex free
\* again and again, for the 3 seconds of every sleep of the poller, and is
\* eventually served.
SpecFair ==
    /\ Spec
    /\ WF_vars(PollerLock)
    /\ WF_vars(PollerRefresh)
    /\ WF_vars(PollerSend)
    /\ WF_vars(PollerSleep)
    /\ SF_vars(FgSwitchMount)
    /\ SF_vars(FgSwitchContext)


(***************************************************************************)
(* Single operations called directly, with their inputs drawn from bounded *)
(* sets: `call` records the operation, its input and its result.           *)
(***************************************************************************)
InitCalls == Init /\ cpus = << >> /\ sys_host_name = NoneValue

\* SystemInfoPoller::get_cpu_info with the library reporting the CPUs cs
CallGetCpuInfo ==
    /\ call = NoCall
    /\ \E cs \in SeqsUpTo(CallFreqs, MaxInfoCores) :
         call' = [fn |-> "get_cpu_info", arg |-> cs, ret |-> get_cpu_info(cs)]
    /\ UNCHANGED progVars

\* the disks the library may enumerate in a direct call of get_disk_info;
\* the library reports available_space <= total_space
CallDisks ==
    { [total_space |-> 10, available_space |-> 6, mount |-> "/"],
      [total_space |-> 20, available_space |-> 4, mount |-> "/home"],
      [total_space |-> 20, available_space |-> 14, mount |-> "/data"],
      [total_space |-> 10, available_space |-> 10, mount |-> "/mnt"],
      [total_space |-> 8, available_space |-> 4, mount |-> "/boot"] }

\* SystemInfoPoller::get_disk_info with the library enumerating the disks ds
CallGetDiskInfo ==
    /\ call = NoCall
    /\ \E ds \in SeqsUpTo(CallDisks, MaxDisks) :
         call' = [fn |-> "get_disk_info", arg |-> ds, ret |-> DiskInfoFrom(ds)]
    /\ UNCHANGED progVars

\* memory statistics a CpuMemoryUpdate may carry: the machine of the run,
\* a machine without swap, no memory reported at all, and swap reported
\* with a total of 0
CallMemory ==
    << get_memory_info,
       [ total |-> 8, used |-> 2, available |-> 6,
         swap_total |-> 0, swap_used |-> 0, swap_available |-> 0 ],
       [ total |-> 0, used |-> 0, available |-> 0,
         swap_total |-> 0, swap_used |-> 0, swap_available |-> 0 ],
       [ total |-> 0, used |-> 0, available |-> 0,
         swap_total |-> 2, swap_used |-> 1, swap_available |-> 1 ] >>

\* CpuMemoryUpdate values handed to the CPU/Memory panel
CallUpdates ==
    [ i \in 1..Len(CallMemory) |->
        [ usage |-> 10 * i,
          frequency |-> IF i = 2 THEN 2400 ELSE 2000,
          temperature |-> 0,
          cores |-> [k \in 1..(i - 1) |->
                       [frequency |-> 2000, temperature |-> 0,
                        usage |-> CoreUsage(k)]],
          memory_stats |-> CallMemory[i] ] ]

\* SystemOverviewInfo values: as get_system_overview builds them (no
\* temperature), and with a temperature
CallOverviews ==
    << get_system_overview(<< 2000 >>, "host", 1),
       [ get_system_overview(<< 2000, 2400 >>, NoneValue, 2)
           EXCEPT !.cpu.temperature = OptSome(45) ] >>

\* process lists
CallProcessLists ==
    << << >>,
       << [pid |-> 1, name |-> "init", memory |-> 4, cpu_usage |-> 0] >>,
       << [pid |-> 1, name |-> "init", memory |-> 4, cpu_usage |-> 0],
          [pid |-> 7, name |-> "N/A", memory |-> 9, cpu_usage |-> 50] >> >>

\* a text that is not JSON
InvalidText == [j |-> "invalid"]

\* a JSON object cut short: the member `key` is missing
WithoutMember(doc, key) ==
    [doc EXCEPT !.v = SelectSeq(@, LAMBDA mbr : mbr[1] # key)]

\* texts handed to OverView::attr: two snapshots, then texts that do not
\* decode (not JSON, a member missing, the JSON of another type)
OverViewDocs ==
    << to_json(SystemOverviewInfoType, CallOverviews[1]),
       to_json(SystemOverviewInfoType, CallOverviews[2]),
       InvalidText,
       WithoutMember(to_json(SystemOverviewInfoType, CallOverviews[1]),
                     "memory"),
       to_json(CpuMemoryUpdateType, CallUpdates[1]) >>

\* texts handed to CpuMemoryDetails::attr
CpuMemoryDocs ==
    [i \in 1..Len(CallUpdates) |-> to_json(CpuMemoryUpdateType, CallUpdates[i])]
    \o << InvalidText,
          WithoutMember(to_json(CpuMemoryUpdateType, CallUpdates[1]),
                        "memory_stats"),
          to_json(ProcessListType, CallProcessLists[2]) >>

\* texts handed to Processes::attr
ProcessesDocs ==
    [i \in 1..Len(CallProcessLists) |->
       to_json(ProcessListType, CallProcessLists[i])]
    \o << InvalidText,
          [j |-> "array",
           v |-> << WithoutMember(to_json(ProcessInfoType,
                                          CallProcessLists[2][1]), "pid") >>],
          to_json(CpuMemoryUpdateType, CallUpdates[1]) >>

\* OverView::attr(Attribute::Custom(_), AttrValue::String(doc)) on the panel
\* the previous attr call left, or on a new panel
CallOverViewAttr ==
    /\ \/ call.fn = "none"
       \/ call.fn = "OverView::attr" /\ call.n < MaxAttrCalls
    /\ \E i \in 1..Len(OverViewDocs) :
         LET before == IF call.fn = "none" THEN OverViewDefault ELSE call.ret
         IN  call' = [ fn |-> "OverView::attr",
                       n |-> IF call.fn = "none" THEN 1 ELSE call.n + 1,
                       before |-> before,
                       arg |-> OverViewDocs[i],
                       ret |-> OverViewAttr(before, OverViewDocs[i]) ]
    /\ UNCHANGED progVars

\* CpuMemoryDetails::attr(Attribute::Value, AttrValue::String(doc)) on the
\* panel the previous attr call left, or on a newly mounted panel; done
\* counts the calls in which process_update ran to its end
CallCpuMemoryDetailsAttr ==
    /\ \/ call.fn = "none"
       \/ /\ call.fn = "CpuMemoryDetails::attr"
          /\ call.n < MaxAttrCalls
          /\ ~Panicked(call.ret)
    /\ \E i \in 1..Len(CpuMemoryDocs) :
         LET before == IF call.fn = "none"
                       THEN CpuMemoryDetailsNew(get_cpu_info(<< 2000 >>))
                       ELSE call.ret
             after == CpuMemoryDetailsAttr(before, CpuMemoryDocs[i])
             done == IF call.fn = "none" THEN 0 ELSE call.done
         IN  call' = [ fn |-> "CpuMemoryDetails::attr",
                       n |-> IF call.fn = "none" THEN 1 ELSE call.n + 1,
                       done |-> IF Decodes(CpuMemoryUpdateType,
                                           CpuMemoryDocs[i])
                                   /\ ~Panicked(after)
                                THEN done + 1 ELSE done,
                       before |-> before,
                       arg |-> CpuMemoryDocs[i],
                       ret |-> after ]
    /\ UNCHANGED progVars

\* Processes::attr(Attribute::Value, AttrValue::String(doc))
CallProcessesAttr ==
    /\ \/ call.fn = "none"
       \/ call.fn = "Processes::attr" /\ call.n < MaxAttrCalls
    /\ \E i \in 1..Len(ProcessesDocs) :
         LET before == IF call.fn = "none" THEN ProcessesDefault ELSE call.ret
         IN  call' = [ fn |-> "Processes::attr",
                       n |-> IF call.fn = "none" THEN 1 ELSE call.n + 1,
                       before |-> before,
                       arg |-> ProcessesDocs[i],
                       ret |-> ProcessesAttr(before, ProcessesDocs[i]) ]
    /\ UNCHANGED progVars

\* the name and the shape of each snapshot type
SnapshotType(name) ==
    CASE name = "SystemOverviewInfo" -> SystemOverviewInfoType
      [] name = "CpuMemoryUpdate" -> CpuMemoryUpdateType
      [] name = "ProcessList" -> ProcessListType

\* to_json followed by from_json on a SystemOverviewInfo: what
\* get_system_overview returns, without and with a CPU temperature
CallRoundTripOverview ==
    /\ call.fn = "none"
    /\ \E cs \in SeqsUpTo(Freqs, MaxCores),
          host \in {NoneValue, "host"},
          t \in 1..MaxTicks,
          temp \in {OptNone, OptSome(45)} :
         LET v == [get_system_overview(cs, host, t)
                     EXCEPT !.cpu.temperature = temp]
         IN  call' = [ fn |-> "round_trip",
                       type |-> "SystemOverviewInfo",
                       arg |-> v,
                       ret |-> from_json(SystemOverviewInfoType,
                                 to_json(SystemOverviewInfoType, v)) ]
    /\ UNCHANGED progVars

\* to_json followed by from_json on a CpuMemoryUpdate
CallRoundTripCpuMemory ==
    /\ call.fn = "none"
    /\ \E v \in {CallUpdates[i] : i \in 1..Len(CallUpdates)} \cup
                 {get_cpu_amd_memory_info(cs) :
                    cs \in SeqsUpTo(Freqs, MaxCores) \ {<< >>}} :
         call' = [ fn |-> "round_trip",
                   type |-> "CpuMemoryUpdate",
                   arg |-> v,
                   ret |-> from_json(CpuMemoryUpdateType,
                             to_json(CpuMemoryUpdateType, v)) ]
    /\ UNCHANGED progVars

\* process_list_to_json followed by process_list_from_json
CallRoundTripProcesses ==
    /\ call.fn = "none"
    /\ \E i \in 1..Len(CallProcessLists) :
         call' = [ fn |-> "round_trip",
                   type |-> "ProcessList",
                   arg |-> CallProcessLists[i],
                   ret |-> from_json(ProcessListType,
                             to_json(ProcessListType, CallProcessLists[i])) ]
    /\ UNCHANGED progVars

\* the updates handed to handle_update: one of each variant, the
\* snapshots with each of their sample values
CallSystemInfoUpdates ==
    [i \in 1..Len(CallOverviews) |->
       [tag |-> "OverView", tick |-> i, data |-> CallOverviews[i]]]
    \o [i \in 1..Len(CallUpdates) |->
          [tag |-> "CpuAndMemory", tick |-> i, data |-> CallUpdates[i]]]
    \o << [tag |-> "Disk", tick |-> 1, data |-> NoneValue],
          [tag |-> "Network", tick |-> 1, data |-> NoneValue],
          [tag |-> "Process", tick |-> 1, data |-> NoneValue] >>

\* View::handle_update on a View with the CPU/Memory panel mounted or not,
\* the panels new or holding a snapshot, and redraw set or not
CallHandleUpdate ==
    /\ call.fn = "none"
    /\ \E i \in 1..Len(CallSystemInfoUpdates),
          mnt \in BOOLEAN, held \in BOOLEAN, rd \in BOOLEAN :
         LET new == CpuMemoryDetailsNew(get_cpu_info(<< 2000 >>))
             view ==
               [ mounted |-> IF mnt THEN {"Menu", "Overvieww", "CpuDetails"}
                             ELSE {"Menu", "Overvieww"},
                 redraw |-> rd,
                 overview |-> IF held
                              THEN OverViewAttr(OverViewDefault,
                                                OverViewDocs[1])
                              ELSE OverViewDefault,
                 cpu_details |->
                     IF ~mnt THEN NoneValue
                     ELSE IF held
                          THEN CpuMemoryDetailsAttr(new, CpuMemoryDocs[2])
                          ELSE new ]
         IN  call' = [ fn |-> "handle_update",
                       before |-> view,
                       arg |-> CallSystemInfoUpdates[i],
                       ret |-> handle_update(view, CallSystemInfoUpdates[i]) ]
    /\ UNCHANGED progVars

\* SystemInfoUpdate::from((&c, &mut poller)) for every polling context,
\* with the library reporting the CPUs cs
CallUpdateFrom ==
    /\ call.fn = "none"
    /\ \E c \in SystemInfoPollingContext,
          cs \in SeqsUpTo(Freqs, MaxCores),
          host \in {NoneValue, "host"} :
         call' = [ fn |-> "SystemInfoUpdate::from",
                   arg |-> [context |-> c, cpus |-> cs, host_name |-> host],
                   ret |-> SystemInfoUpdateFrom(c, cs, host, 1) ]
    /\ UNCHANGED progVars

\* the poller's updates reaching a mounted CPU/Memory panel one after the
\* other, 3 seconds apart (view.rs:107): CpuMemoryDetails::attr on the panel
\* the previous update left. n counts the updates applied.
CallAttrEveryThreeSeconds ==
    /\ \/ call.fn = "none"
       \/ call.fn = "updates" /\ call.n < MaxSeriesUpdates
    /\ LET cs == << 2000 >>
           before == IF call.fn = "none"
                     THEN CpuMemoryDetailsNew(get_cpu_info(cs))
                     ELSE call.ret
           doc == to_json(CpuMemoryUpdateType, get_cpu_amd_memory_info(cs))
       IN  call' = [ fn |-> "updates",
                     n |-> IF call.fn = "none" THEN 1 ELSE call.n + 1,
                     ret |-> CpuMemoryDetailsAttr(before, doc) ]
    /\ UNCHANGED progVars

\* the CPU/Memory panel as the program builds it on a machine with the CPUs
\* cs (mounted with get_cpu_info, then fed the poller's update), rendered
CallRenderCoreDetails ==
    /\ call.fn = "none"
    /\ \E cs \in SeqsUpTo(Freqs, MaxRenderCores) \ {<< >>} :
         LET panel ==
               CpuMemoryDetailsAttr(
                   CpuMemoryDetailsNew(get_cpu_info(cs)),
                   to_json(CpuMemoryUpdateType, get_cpu_amd_memory_info(cs)))
         IN  call' = [ fn |-> "render_core_details",
                       arg |-> panel,
                       ret |-> render_core_details(panel) ]
    /\ UNCHANGED progVars

NextCalls ==
    \/ CallGetCpuInfo
    \/ CallGetDiskInfo
    \/ CallOverViewAttr
    \/ CallCpuMemoryDetailsAttr
    \/ CallProcessesAttr
    \/ CallRoundTripOverview
    \/ CallRoundTripCpuMemory
    \/ CallRoundTripProcesses
    \/ CallHandleUpdate
    \/ CallUpdateFrom
    \/ CallAttrEveryThreeSeconds
    \/ CallRenderCoreDetails

SpecCalls == InitCalls /\ [][NextCalls]_vars


(***************************************************************************)
(* Properties.                                                             *)
(***************************************************************************)

IsPrefix(s, t) == Len(s) <= Len(t) /\ \A i \in 1..Len(s) : s[i] = t[i]

\* C1: the updates handed to handle_update are a prefix of the updates the
\* poller sent, in the same order; while the Receiver lives, what was sent
\* is exactly what was applied followed by what is still queued, so nothing
\* is applied twice, skipped, reordered or coalesced.
C1_AppliedIsPrefixOfSent ==
    /\ IsPrefix(applied, sent)
    /\ \A i, j \in 1..Len(applied) : i < j => applied[i].tick < applied[j].tick
    /\ rx_alive => applied \o chan = sent

\* three Overview snapshots were published and all three were applied
C1_ThreeApplied ==
    /\ Len(applied) = 3
    /\ \A i \in 1..3 : applied[i].tag = "OverView" /\ applied[i].tick = i

\* C2: the channel is polled once per iteration of the run loop, without
\* blocking: at the top of the loop the poll can be taken when the queue is
\* empty; a step that takes anything out of the live channel is that poll
\* and takes exactly one update, and handle_update runs at most once in it.
C2_OneDrainPerIteration ==
    /\ [](fpc = "loop" /\ ~quit /\ chan = << >> => ENABLED FgRecv)
    /\ [][ /\ (rx_alive' /\ chan' # chan /\ Len(chan') <= Len(chan)) =>
                /\ fpc = "loop"
                /\ fpc' # "loop"
                /\ Len(chan') = Len(chan) - 1
                /\ chan' = Tail(chan)
           /\ applied' # applied =>
                /\ fpc = "loop"
                /\ fpc' = "tick"
                /\ Len(applied') = Len(applied) + 1
                /\ Len(chan') = Len(chan) - 1 ]_vars

\* one update has been applied while two more stay queued
C2_OneTakenTwoQueued ==
    /\ fpc = "tick"
    /\ Len(applied) = 1
    /\ Len(chan) = 2

\* C3: the poller loop ends only through a failed send, so the poller thread
\* never stops while the Receiver is still alive.
C3_PollerStopsOnlyOnClosedChannel ==
    ppc \in {"done", "panicked"} => ~rx_alive

\* C4 (as claimed): the mutex is released before the update is sent.
C4_LockReleasedBeforeSend ==
    ppc = "send" => lock # "poller"

\* C4 (amended): the poller holds the mutex exactly from its acquisition to
\* the end of the send (context read, refresh and send), and never while it
\* sleeps or after it has ended.
C4_LockHeldUntilSent ==
    (lock = "poller") <=> (ppc \in {"refresh", "send"})

\* the poller sleeps after a send and the mutex is free
C4_SleepingUnlocked ==
    /\ ppc = "sleep"
    /\ Len(sent) >= 1
    /\ lock = "free"

\* the SystemInfoUpdate variant that carries a polling context's category
CategoryOf(c) ==
    CASE c = "Overview" -> "OverView"
      [] c = "CpuAndMemory" -> "CpuAndMemory"
      [] c = "Processes" -> "Process"
      [] c = "Disks" -> "Disk"
      [] c = "Network" -> "Network"

\* C5: the update the poller is about to send carries the category of the
\* current polling context (the one most recently set) and the result of
\* the one refresh mapped to it; no step of the poller changes the polling
\* context.
C5_UpdateMatchesContext ==
    /\ [](ppc = "send" =>
            /\ ctx = polling_context
            /\ update.tag = CategoryOf(polling_context)
            /\ update.tag = "OverView" =>
                 update.data =
                     get_system_overview(cpus, sys_host_name, update.tick)
            /\ update.tag = "CpuAndMemory" =>
                 update.data = get_cpu_amd_memory_info(cpus))
    /\ [][ppc' # ppc => polling_context' = polling_context]_vars

\* the poller is about to send a CpuAndMemory update after a tab switch
C5_CpuAndMemoryTick ==
    /\ ppc = "send"
    /\ polling_context = "CpuAndMemory"
    /\ update.tag = "CpuAndMemory"
    /\ Len(sent) >= 1


\* the polling context that matches a tab
MatchingContext(tab) ==
    CASE tab = "OverView" -> "Overview"
      [] tab = "CpuMemoryDetails" -> "CpuAndMemory"
      [] tab = "ProcessDetails" -> "Processes"
      [] tab = "DiskDetails" -> "Disks"
      [] tab = "NetworkDetails" -> "Network"

\* C6: once a ChangeNextMenu or ChangePreviousMenu message has been fully
\* processed by update and switch_view, the polling context is the variant
\* matching the new tab.
C6_ContextMatchesTab ==
    (fpc = "render" /\ msg \in {"ChangeNextMenu", "ChangePreviousMenu"}) =>
        polling_context = MatchingContext(current_tab)

\* the tabs in their declared order
RingOrder ==
    << "OverView", "CpuMemoryDetails", "ProcessDetails", "DiskDetails",
       "NetworkDetails" >>

\* C7: after k successive next() calls made from OverView the tab is the
\* k-th tab of the declared ring of five, so the fifth call is back on
\* OverView; and once the fifth tab switch has been carried out the polling
\* context is Overview again.
C7_RingOfFive ==
    /\ Len(RingOrder) = Cardinality(MenuState)
    /\ nexts >= 0 => current_tab = RingOrder[(nexts % Len(RingOrder)) + 1]
    /\ (nexts = Len(RingOrder) /\ fpc \notin {"switch", "crashed"}) =>
           /\ current_tab = "OverView"
           /\ polling_context = "Overview"

\* five successive next() calls from OverView have been carried out
C7_FiveAdvancesDone ==
    /\ nexts = Len(RingOrder)
    /\ fpc = "render"
    /\ msg = "ChangeNextMenu"
    /\ current_tab = "OverView"
    /\ polling_context = "Overview"

\* C8: ChangePreviousMenu selects the previous tab: previous() undoes next()
\* on every tab, and from OverView it selects NetworkDetails.
C8_PreviousUndoesNext ==
    [][ (fpc = "update" /\ msg = "ChangePreviousMenu" /\ fpc' = "switch") =>
            /\ next(current_tab') = current_tab
            /\ current_tab = "OverView" => current_tab' = "NetworkDetails"
      ]_vars

\* C9: a poisoned mutex does not crash the process (and an iteration of the
\* poller that finds the mutex poisoned sends nothing and goes to sleep).
C9_PoisonDoesNotCrash ==
    poisoned => fpc # "crashed"

\* C10: every refresh returns a snapshot, never a panic, whatever the
\* metrics library reports (zero CPUs included), and when the hostname
\* query fails every snapshot carries the sentinel "N/A".
C10_RefreshAlwaysReturns ==
    /\ ppc = "refresh" =>
           ~Panicked(SystemInfoUpdateFrom(ctx, cpus, sys_host_name,
                                          Len(sent) + 1))
    /\ \A i \in 1..Len(sent) :
           (sent[i].tag = "OverView" /\ sys_host_name = NoneValue) =>
               sent[i].data.overview.host_name = "N/A"

\* C11: get_cpu_info returns core_count equal to the number of CPUs the
\* library reports and frequency equal to the mean of the per-core
\* frequencies truncated to an integer (the largest f with
\* f * core_count <= sum); with no CPU the frequency is 0. The cores
\* 2000, 2200, 1800, 2400 give frequency 2100 and core_count 4.
C11_CpuInfoIsTruncatedMean ==
    call.fn = "get_cpu_info" =>
        LET cs == call.arg
            r == call.ret
        IN  /\ r.core_count = Len(cs)
            /\ Len(cs) = 0 => r.frequency = 0
            /\ Len(cs) > 0 =>
                 /\ r.frequency * Len(cs) <= SumSeq(cs)
                 /\ SumSeq(cs) < (r.frequency + 1) * Len(cs)
            /\ cs = << 2000, 2200, 1800, 2400 >> =>
                 r.frequency = 2100 /\ r.core_count = 4

\* get_cpu_info has returned for the cores 2000, 2200, 1800, 2400
C11_FourCoresMean2100 ==
    /\ call.fn = "get_cpu_info"
    /\ call.arg = << 2000, 2200, 1800, 2400 >>
    /\ call.ret.frequency = 2100
    /\ call.ret.core_count = 4

\* the number of positions of the sequence s that hold x
Count(s, x) == Cardinality({i \in 1..Len(s) : s[i] = x})

\* the entry get_disk_info must report for a disk of the library
EntryOf(disk) ==
    [ total_space |-> disk.total_space,
      used_space |-> disk.total_space - disk.available_space,
      available_space |-> disk.available_space,
      mount |-> disk.mount ]

\* C12: for every list of disks the library reports, get_disk_info returns
\* a permutation of the reported disks (one entry per disk, each disk as
\* often as it was reported), ordered by used_space from the largest to
\* the smallest, and every entry has used_space = total_space -
\* available_space.
C12_DisksSortedByUsedDescending ==
    call.fn = "get_disk_info" =>
        LET ds == call.arg
            out == call.ret.disks
        IN  /\ Len(out) = Len(ds)
            /\ \A i \in 1..Len(ds) :
                 Count(out, EntryOf(ds[i])) = Count(ds, ds[i])
            /\ \A i, j \in 1..Len(out) :
                 i < j => out[i].used_space >= out[j].used_space
            /\ \A i \in 1..Len(out) :
                 out[i].used_space =
                     out[i].total_space - out[i].available_space

\* three disks reported in ascending order of used space (0, 4, 16) have
\* come back in the opposite order
C12_ThreeDisksReordered ==
    /\ call.fn = "get_disk_info"
    /\ Len(call.arg) = 3
    /\ call.arg[1].mount = "/mnt"
    /\ call.arg[2].mount = "/"
    /\ call.arg[3].mount = "/home"
    /\ call.ret.disks[1].mount = "/home"
    /\ call.ret.disks[1].used_space = 16
    /\ call.ret.disks[2].mount = "/"
    /\ call.ret.disks[3].mount = "/mnt"

\* C13: when the text handed to a panel's attr (OverView, CpuMemoryDetails,
\* Processes) does not decode, the update is dropped: the panel's stored
\* snapshot, its time series, its max_frequency and its process list are
\* what they were before the call.
C13_UndecodableTextIsDropped ==
    /\ (call.fn = "OverView::attr"
            /\ ~Decodes(SystemOverviewInfoType, call.arg)) =>
          /\ call.ret.sysinfo = call.before.sysinfo
          /\ call.ret.disk_usage = call.before.disk_usage
    /\ (call.fn = "CpuMemoryDetails::attr"
            /\ ~Decodes(CpuMemoryUpdateType, call.arg)) =>
          /\ call.ret.cpu_update = call.before.cpu_update
          /\ call.ret.cpu_usage = call.before.cpu_usage
          /\ call.ret.memory_usage = call.before.memory_usage
          /\ call.ret.swap_usage = call.before.swap_usage
          /\ call.ret.max_frequency = call.before.max_frequency
          /\ call.ret = call.before
    /\ (call.fn = "Processes::attr"
            /\ ~Decodes(ProcessListType, call.arg)) =>
          call.ret.list = call.before.list

\* a CPU/Memory panel holding two samples was handed a JSON object without
\* its memory_stats member and still holds exactly those two samples
C13_TruncatedUpdateAfterTwoSamples ==
    /\ call.fn = "CpuMemoryDetails::attr"
    /\ call.arg = CpuMemoryDocs[6]
    /\ ~Decodes(CpuMemoryUpdateType, call.arg)
    /\ Len(call.before.cpu_usage) = 2
    /\ call.before.max_frequency = 2400
    /\ call.ret = call.before

C15_ZeroTotalMemoryGivesZeroPercent ==
    (call.fn = "CpuMemoryDetails::attr"
        /\ Decodes(CpuMemoryUpdateType, call.arg)
        /\ Decoded(CpuMemoryUpdateType, call.arg).memory_stats.total = 0) =>
          /\ ~Panicked(call.ret)
          /\ call.ret.memory_usage[Len(call.ret.memory_usage)][2] = 0

\* C19: after any sequence of updates handed to the CPU/Memory panel, the
\* series cpu_usage, memory_usage and swap_usage each hold exactly one
\* sample per update that process_update applied to its end (the same
\* length n in all three), and the x-coordinate of the i-th sample,
\* counted from 0, is i.
C19_OneSamplePerAppliedUpdate ==
    (call.fn = "CpuMemoryDetails::attr" /\ ~Panicked(call.ret)) =>
        LET panel == call.ret
            n == call.done
        IN  /\ Len(panel.cpu_usage) = n
            /\ Len(panel.memory_usage) = n
            /\ Len(panel.swap_usage) = n
            /\ \A i \in 1..n :
                 /\ panel.cpu_usage[i][1] = i - 1
                 /\ panel.memory_usage[i][1] = i - 1
                 /\ panel.swap_usage[i][1] = i - 1

\* three texts were handed to the panel and one of the first two did not
\* decode: the third is applied as the second sample, numbered 1
C19_TwoAppliedOneDropped ==
    /\ call.fn = "CpuMemoryDetails::attr"
    /\ call.n = 3
    /\ call.done = 2
    /\ Len(call.before.cpu_usage) = 1
    /\ Len(call.ret.cpu_usage) = 2
    /\ call.ret.cpu_usage[2][1] = 1
    /\ call.ret.swap_usage[2][1] = 1

\* C16: the render step at the end of a loop iteration invokes render
\* exactly when that iteration applied a snapshot or received an input
\* message, or is the first iteration (redraw starts true); it leaves the
\* redraw flag false, so the flag is false at the top of every iteration
\* but the first, and a snapshot applied in an iteration is rendered in
\* that same iteration.
C16_RenderExactlyWhenDirty ==
    /\ [](fpc = "loop" /\ ~iteration.first => ~redraw)
    /\ [][ (fpc = "render" /\ fpc' = "loop") =>
              /\ iteration'.rendered <=>
                    (iteration.drained \/ msg # NoMessage \/ iteration.first)
              /\ iteration.drained => iteration'.rendered
              /\ ~redraw' ]_vars

\* an iteration after the first has ended without invoking render, after a
\* snapshot had been applied and rendered by an earlier one
C16_IdleIterationSkipsRender ==
    /\ fpc = "loop"
    /\ ~iteration.first
    /\ ~iteration.rendered
    /\ ~redraw
    /\ Len(applied) >= 1

\* C17: each of the quit keys 'q', Esc and F10 produces Message::Quit; once
\* Quit has been processed the run loop starts no further iteration (no
\* snapshot is drained, no message is collected or processed, the tab does
\* not change), and close() has run exactly once when run has returned and
\* not before: the screen is then clear and the cursor shown, and until
\* then the cursor is hidden.
C17_QuitEndsTheLoop ==
    /\ [](\A key \in {"q", "Esc", "F10"} : MenuOn(key) = "Quit")
    /\ [](counts.close = IF fpc \in {"closed", "exited"} THEN 1 ELSE 0)
    /\ [](fpc \in {"closed", "exited"} =>
            terminal = [cursor |-> "shown", screen |-> "clear"])
    /\ [](fpc \notin {"closed", "exited"} => terminal.cursor = "hidden")
    /\ [](fpc \in {"closed", "exited"} => quit)
    /\ [][ quit =>
             /\ quit'
             /\ applied' = applied
             /\ current_tab' = current_tab
             /\ msg' \in {msg, NoMessage}
             /\ fpc' \notin {"tick", "update", "switch"} ]_vars

\* run has returned after one close() while a snapshot was still queued
C17_ClosedWithSnapshotQueued ==
    /\ fpc = "closed"
    /\ quit
    /\ counts.close = 1
    /\ terminal.cursor = "shown"
    /\ Len(chan) >= 1

\* C20: the foreground calls get_cpu_info on the shared poller at most
\* once in a run: only in switch_view for the CPU/Memory tab while
\* CpuDetails is not mounted, with the lock free to take; that call mounts
\* the panel, which is mounted at most once and never unmounted.
C20_OneRefreshOneMount ==
    /\ [](counts.get_cpu_info <= 1 /\ counts.mount <= 1)
    /\ [](counts.mount = IF "CpuDetails" \in mounted THEN 1 ELSE 0)
    /\ [][ /\ mounted \subseteq mounted'
           /\ counts'.get_cpu_info # counts.get_cpu_info =>
                /\ fpc = "switch"
                /\ current_tab = "CpuMemoryDetails"
                /\ "CpuDetails" \notin mounted
                /\ "CpuDetails" \in mounted'
                /\ lock = "free" ]_vars

\* switch_view has returned for the CPU/Memory tab a second time (the
\* poller sampled CpuAndMemory on the first visit and Overview after the
\* return to the OverView tab): still one call and one mount
C20_SecondVisitNoRefresh ==
    /\ fpc = "render"
    /\ current_tab = "CpuMemoryDetails"
    /\ polling_context = "CpuAndMemory"
    /\ \E i, j \in 1..Len(sent) :
         i < j /\ sent[i].tag = "CpuAndMemory" /\ sent[j].tag = "OverView"
    /\ counts.get_cpu_info = 1
    /\ counts.mount = 1

\* the poller side of C18: in the contexts Processes, Disks and Network the
\* conversion runs no refresh: it returns, also with no CPU reported, the
\* variant of the context with no snapshot in it
NoRefreshInUnusedContexts ==
    (call.fn = "SystemInfoUpdate::from"
        /\ call.arg.context \in {"Processes", "Disks", "Network"}) =>
          /\ ~Panicked(call.ret)
          /\ call.ret.tag = CASE call.arg.context = "Processes" -> "Process"
                              [] call.arg.context = "Disks" -> "Disk"
                              [] call.arg.context = "Network" -> "Network"
          /\ call.ret.data = NoneValue

C21_SeriesKeepFifteenMinutes ==
    call.fn = "updates" =>
        /\ Len(call.ret.cpu_usage) <= ChartSamples
        /\ Len(call.ret.memory_usage) <= ChartSamples
        /\ Len(call.ret.swap_usage) <= ChartSamples

\* C22: whenever handle_update receives a CpuAndMemory update the CpuDetails
\* panel is already mounted, so the assert on the attr call never fails: the
\* polling context is CpuAndMemory only with the panel mounted, and so is
\* every CpuAndMemory update the poller has read the context for, built,
\* sent or left queued.
C22_CpuDetailsMountedBeforeItsUpdates ==
    /\ polling_context = "CpuAndMemory" => "CpuDetails" \in mounted
    /\ ctx = "CpuAndMemory" => "CpuDetails" \in mounted
    /\ update.tag = "CpuAndMemory" => "CpuDetails" \in mounted
    /\ \A i \in 1..Len(sent) :
         sent[i].tag = "CpuAndMemory" => "CpuDetails" \in mounted
    /\ (fpc = "loop" /\ ~quit /\ chan # << >>
          /\ Head(chan).tag = "CpuAndMemory") =>
           ~Panicked(handle_update([mounted |-> mounted, redraw |-> redraw,
                                    overview |-> overview,
                                    cpu_details |-> cpu_details],
                                   Head(chan)))

\* handle_update has applied a CpuAndMemory update to the mounted panel
C22_CpuAndMemoryApplied ==
    /\ Len(applied) >= 2
    /\ applied[Len(applied)].tag = "CpuAndMemory"
    /\ "CpuDetails" \in mounted
    /\ Len(cpu_details.cpu_usage) = 1
    /\ fpc = "tick"

\* C23: every update the poller sends carries the category of the polling
\* context in force when it is sent, that is of the last set_polling_context
\* call that has returned: the context does not change between the poller's
\* context read and the end of its send, so only updates that were already
\* queued can carry an older category.
C23_SentUpdatesCarryCurrentContext ==
    /\ [][sent' # sent =>
            /\ sent' = Append(sent, update)
            /\ update.tag = CategoryOf(polling_context)
            /\ polling_context' = polling_context]_vars
    /\ [][polling_context' # polling_context =>
            /\ ppc \notin {"refresh", "send"}
            /\ ppc' = ppc
            /\ sent' = sent]_vars

\* an Overview update from before the switch is still queued behind it a
\* CpuAndMemory update sent after the switch
C23_OldCategoryStillQueued ==
    /\ Len(chan) = 2
    /\ chan[1].tag = "OverView"
    /\ chan[2].tag = "CpuAndMemory"
    /\ polling_context = "CpuAndMemory"
    /\ lock = "free"

\* C24: the shared lock never causes a deadlock: a foreground tab switch
\* that has to take the lock is eventually given it, on the first switch to
\* the CPU/Memory tab twice in sequence (get_cpu_info with the mount, then
\* set_polling_context), and the poller is eventually given it on every
\* tick. On a poisoned mutex lock() returns as well, with an error, and the
\* unwrap of switch_view ends the foreground (C9): it does not wait.
C24_LockEventuallyAcquired ==
    /\ (fpc = "switch" /\ current_tab = "CpuMemoryDetails"
          /\ NeedsMount(mounted))
          ~> ((fpc = "switch" /\ ~NeedsMount(mounted)) \/ fpc = "crashed")
    /\ (fpc = "switch" /\ current_tab \in {"CpuMemoryDetails", "OverView"})
          ~> (fpc \in {"render", "crashed"})
    /\ (ppc = "lock" /\ Len(sent) < MaxTicks) ~> (ppc = "refresh")

\* the first switch to the CPU/Memory tab waits for the lock while the
\* poller holds it
C24_SwitchWaitsForPoller ==
    /\ fpc = "switch"
    /\ current_tab = "CpuMemoryDetails"
    /\ NeedsMount(mounted)
    /\ lock = "poller"
    /\ ppc = "send"

\* C25: whichever panel is rendered for the current tab is the panel the
\* poller is feeding: when a render step draws Overvieww the polling context
\* is Overview, and when it draws CpuDetails the context is CpuAndMemory.
C25_RenderedPanelIsFed ==
    (fpc = "render" /\ redraw) =>
        /\ ComponentOf(current_tab) = "Overvieww" =>
               polling_context = "Overview"
        /\ ComponentOf(current_tab) = "CpuDetails" =>
               polling_context = "CpuAndMemory"

\* C26: the Overview panel's pre-calculated top-3 disk usage text describes
\* the first three disks of the snapshot stored in sysinfo: initially, and
\* after every Overview snapshot applied to the panel.
C26_DiskUsageTextIsCurrent ==
    overview.disk_usage = calculate_disk_usage_info(overview.sysinfo)

\* C27: for every applied CpuMemoryUpdate, whatever its number of cores,
\* render_core_details draws one bar group per core without indexing
\* outside the layout slots it created.
C27_OneBarGroupPerCore ==
    call.fn = "render_core_details" =>
        /\ ~Panicked(call.ret)
        /\ Len(call.ret.bars) = Len(call.arg.cpu_update.cores)
        /\ \A k \in 1..Len(call.ret.bars) :
             call.ret.bars[k].slot \in 0..(CoreLayoutSlots - 1)

\* C28: every core of the stored update has core.frequency <= max_frequency,
\* so the frequency bar render_core_details draws for it lies between 0 and
\* 100.
C28_CoreFrequencyWithinMax ==
    call.fn = "render_core_details" =>
        /\ \A k \in 1..Len(call.arg.cpu_update.cores) :
             call.arg.cpu_update.cores[k].frequency <= call.arg.max_frequency
        /\ ~Panicked(call.ret) =>
             \A k \in 1..Len(call.ret.bars) :
                 call.ret.bars[k].frequency \in 0..100

\* C29: the swap usage sample recorded by process_update is the swap usage
\* in percent: swap_used as a percentage of swap_total when swap_total > 0
\* (swap_used = swap_total / 2 records 50), and 0 when swap_total = 0.
C29_SwapSampleIsPercentOfSwapTotal ==
    ( /\ call.fn = "CpuMemoryDetails::attr"
      /\ Decodes(CpuMemoryUpdateType, call.arg)
      /\ ~Panicked(call.ret) ) =>
        LET mem == Decoded(CpuMemoryUpdateType, call.arg).memory_stats
            sample == call.ret.swap_usage[Len(call.ret.swap_usage)][2]
        IN  /\ mem.swap_total > 0 =>
                 sample = (mem.swap_used * 100) \div mem.swap_total
            /\ mem.swap_total = 0 => sample = 0
            /\ (mem.swap_total > 0 /\ 2 * mem.swap_used = mem.swap_total) =>
                 sample = 50

\* C30: the tab index stored in the Menu component (the highlighted tab)
\* equals current_tab.index() initially and whenever no tab switch is in
\* progress, so after every ChangeNextMenu or ChangePreviousMenu message
\* has been processed; a switch that panics on a poisoned mutex (C9) ends
\* the foreground before the message is processed.
C30_MenuHighlightsCurrentTab ==
    /\ fpc \notin {"switch", "crashed"} => menu_value = index(current_tab)
    /\ menu_value \in 0..(Cardinality(MenuState) - 1)

\* a ChangePreviousMenu message has been processed on the CPU/Memory tab:
\* the Menu highlights the third tab
C30_ThirdTabHighlighted ==
    /\ fpc = "render"
    /\ msg = "ChangePreviousMenu"
    /\ current_tab = "ProcessDetails"
    /\ menu_value = 2

====
